---- MODULE Spec2Model ----
(***************************************************************************)
(* Model of the cashflow store (src/src/lib/store.ts) and of the ledger    *)
(* mirror client it calls (src/src/lib/blockchain.ts).                     *)
(*                                                                         *)
(* Value conventions                                                       *)
(*   - JS null of a string field is the string Null, of a number field the *)
(*     number NullNum.                                                     *)
(*   - An object literal is a TLA+ record; an object whose key set varies  *)
(*     (a Partial<CashflowInput>, the update payload) is a function whose  *)
(*     DOMAIN is the set of keys that are present.                         *)
(*   - A date string is a record [fmt, t]: fmt is the textual form, t the  *)
(*     instant it denotes (0 when it denotes none).  "iso" is the output   *)
(*     of Date.prototype.toISOString, "pg" the rendering of a timestamp    *)
(*     column by the relational backend, "ymd" a date-only form input.     *)
(*   - The template strings `${table}-${id}` and `${orgId}-${branchId}`    *)
(*     are the pairs <<table, id>> and <<orgId, branchId>>.                *)
(***************************************************************************)
EXTENDS Integers, Sequences, FiniteSets, TLC

\* ------------------------------------------------------------------------
\* Bounds of the model
\* ------------------------------------------------------------------------
MaxOps == 2

MaxClock == 1

MaxMaps == 2

\* writes of other handlers to the session and the profiles row during a run
MaxEdits == 1

\* the instants new Date() can return
Instants == 0..MaxClock

\* ------------------------------------------------------------------------
\* Program constants and literals
\* ------------------------------------------------------------------------
INCOME_TABLE == "income_transaction"

EXPENSE_TABLE == "expense_transaction"

Null == "null"

NullNum == -1

ErrLogin == "You must be logged in to access cashflows"

ErrProfile == "Profile not found"

ErrBranch == "Your profile is missing a branch assignment"

ErrNotFound == "Cashflow entry not found"

ErrUnknown == "Unknown error"

\* message carried by an error object of the auth client / relational backend
ErrAuth == "auth error"

ErrDb == "db error"

\* ------------------------------------------------------------------------
\* Dates
\* ------------------------------------------------------------------------
DNull == [fmt |-> "null", t |-> 0]

DEmpty == [fmt |-> "empty", t |-> 0]

DGarbage == [fmt |-> "garbage", t |-> 0]

Iso(t) == [fmt |-> "iso", t |-> t]

Pg(t) == [fmt |-> "pg", t |-> t]

Ymd(t) == [fmt |-> "ymd", t |-> t]

\* !value for a string | null | undefined
Falsy(value) == value.fmt \in {"null", "empty"}

\* Number.isNaN(new Date(value).getTime())
IsNaNDate(value) == value.fmt \in {"empty", "garbage"}

\* new Date(value).getTime() of a parseable date string
GetTime(value) == value.t

normalizeTimestampAlwaysNow(value, now) == Iso(now)

normalizeTimestamp(value, now) ==
    IF Falsy(value) THEN Iso(now)
    ELSE IF IsNaNDate(value) THEN Iso(now)
    ELSE Iso(GetTime(value))

\* the result "undefined" of normalizeDateInput is DNull here; its only
\* caller applies ?? or a truthiness test to it
normalizeDateInput(value) ==
    IF Falsy(value) THEN DNull
    ELSE IF IsNaNDate(value) THEN DNull
    ELSE Iso(GetTime(value))

\* ------------------------------------------------------------------------
\* Record Mapper
\* ------------------------------------------------------------------------
\* a ?? b for strings and for numbers
CoalesceStr(a, b) == IF a = Null THEN b ELSE a

CoalesceNum(a, b) == IF a = NullNum THEN b ELSE a

UnifiedIdNoTable(table, id) == ToString(id)

\* `${table}-${row.id}`
UnifiedId(table, id) == table \o "-" \o ToString(id)

mapIncomeRow(row, now) ==
    [id          |-> UnifiedId(INCOME_TABLE, row.id),
     sourceId    |-> row.id,
     sourceTable |-> INCOME_TABLE,
     name        |-> CoalesceStr(row.income_type, "Income"),
     category    |-> "income",
     amount      |-> CoalesceNum(row.amount, 0),
     date        |-> normalizeTimestamp(row.created_at, now),
     description |-> Null,
     branchId    |-> row.branch_id,
     cashflowId  |-> row.cashflow_id,
     orgId       |-> row.org_id]

mapExpenseRow(row, now) ==
    [id          |-> UnifiedId(EXPENSE_TABLE, row.id),
     sourceId    |-> row.id,
     sourceTable |-> EXPENSE_TABLE,
     name        |-> CoalesceStr(row.expense_category, "Expense"),
     category    |-> "expense",
     amount      |-> CoalesceNum(row.amount, 0),
     date        |-> normalizeTimestamp(row.created_at, now),
     description |-> row.description,
     branchId    |-> row.branch_id,
     cashflowId  |-> row.cashflow_id,
     orgId       |-> row.org_id]

MapRow(table, row, now) ==
    IF table = INCOME_TABLE THEN mapIncomeRow(row, now) ELSE mapExpenseRow(row, now)

\* ------------------------------------------------------------------------
\* Objects with a varying key set
\* ------------------------------------------------------------------------
EmptyObj == [k \in {} |-> Null]

Has(obj, key) == key \in DOMAIN obj

\* obj with key set to value (an assignment obj.key = value)
Put(obj, key, value) == (key :> value) @@ obj

\* delete obj.key
Without(obj, key) == [k \in (DOMAIN obj) \ {key} |-> obj[k]]

\* ------------------------------------------------------------------------
\* Profile Resolver
\* ------------------------------------------------------------------------
UserId == "user-1"

\* the account of an administrator of the organisation
AdminId == "admin-1"

AccountIds == {UserId, AdminId}

\* !profile.branch_id
NoBranch(branch_id) == branch_id = NullNum \/ branch_id = 0

\* profile.role || 'user'
RoleOrUser(role) == IF role = Null \/ role = "" THEN "user" ELSE role

Failed(message) ==
    [ok |-> FALSE, err |-> message, userId |-> Null, branchId |-> NullNum,
     orgId |-> Null, role |-> Null]

\* lines 132-143: what is known once supabase.auth.getUser() has answered
getUser(authRes) ==
    IF authRes = "error" THEN Failed(ErrAuth)
    ELSE IF authRes = "nouser" THEN Failed(ErrLogin)
    ELSE [ok |-> TRUE, err |-> Null, userId |-> authRes, branchId |-> NullNum,
          orgId |-> Null, role |-> Null]

\* authRes: the outcome of supabase.auth.getUser(), "error" | "nouser" | the
\*          id of the signed-in user
\* profRes: the outcome of the profiles query, "error" | "nodata" | "row"
\* profile: the row the query returned (read only when profRes = "row")
ensureProfile(authRes, profRes, profile) ==
    IF authRes = "error" THEN Failed(ErrAuth)
    ELSE IF authRes = "nouser" THEN Failed(ErrLogin)
    ELSE IF profRes = "error" THEN Failed(ErrDb)
    ELSE IF profRes = "nodata" THEN Failed(ErrProfile)
    ELSE IF profile.role # "admin" /\ NoBranch(profile.branch_id)
         THEN Failed(ErrBranch)
    ELSE [ok |-> TRUE, err |-> Null, userId |-> authRes,
          branchId |-> profile.branch_id, orgId |-> profile.org_id,
          role |-> RoleOrUser(profile.role)]

\* ------------------------------------------------------------------------
\* Payload builders
\* ------------------------------------------------------------------------
\* payload.description ?? null
DescriptionOrNull(payload) ==
    IF Has(payload, "description") THEN payload["description"] ELSE Null

\* payload.description || ''
DescriptionOrEmpty(description) ==
    IF description = Null \/ description = "" THEN "" ELSE description

buildInsertPayload(payload, branchId, userId, orgId, now) ==
    LET ts == normalizeDateInput(payload["date"])
        base == [branch_id   |-> branchId,
                 user_id     |-> userId,
                 org_id      |-> orgId,
                 amount      |-> payload["amount"],
                 created_at  |-> IF ts = DNull THEN Iso(now) ELSE ts,
                 cashflow_id |-> NullNum]
    IN  IF payload["category"] = "income"
        THEN Put(base, "income_type", payload["name"])
        ELSE Put(Put(base, "expense_category", payload["name"]),
                 "description", DescriptionOrNull(payload))

\* the same, with the ownership columns written as buildInsertPayload does
buildUpdatePayloadOwned(payload) ==
    LET u1 == IF Has(payload, "amount")
              THEN Put(EmptyObj, "amount", payload["amount"]) ELSE EmptyObj
        u3 == IF Has(payload, "description")
              THEN Put(u1, "description", payload["description"]) ELSE u1
    IN  Put(Put(u3, "branch_id", NullNum), "org_id", Null)

buildUpdatePayload(payload) ==
    LET u1 == IF Has(payload, "amount")
              THEN Put(EmptyObj, "amount", payload["amount"]) ELSE EmptyObj
        ts == IF Has(payload, "date") THEN normalizeDateInput(payload["date"])
              ELSE DNull
        u2 == IF Has(payload, "date") /\ ~Falsy(payload["date"]) /\ ts # DNull
              THEN Put(u1, "created_at", ts) ELSE u1
        u3 == IF Has(payload, "description")
              THEN Put(u2, "description", payload["description"]) ELSE u2
    IN  u3

\* lines 362-368 of updateCashflow: the name goes to the table's own column
WithName(updates, payload, existing) ==
    IF Has(payload, "name")
    THEN IF existing.sourceTable = INCOME_TABLE
         THEN Put(updates, "income_type", payload["name"])
         ELSE Put(updates, "expense_category", payload["name"])
    ELSE updates

StripDescriptionNever(updates, existing) == updates

\* lines 370-372 of updateCashflow
StripDescription(updates, existing) ==
    IF existing.sourceTable = INCOME_TABLE
    THEN Without(updates, "description") ELSE updates

\* the payload updateCashflow sends to the primary store
UpdatePayload(payload, existing) ==
    StripDescription(WithName(buildUpdatePayload(payload), payload, existing),
                     existing)

\* ------------------------------------------------------------------------
\* Relational backend (primary store) as the store's queries see it
\* ------------------------------------------------------------------------
\* a truthiness test `if (orgId)` / `if (branchId)`
TruthyStr(x) == x # Null /\ x # ""

TruthyNum(x) == x # NullNum /\ x # 0

\* the .eq() filters fetchCashflows adds to both queries
ScopeFilter(role, branchId, orgId, row) ==
    IF role = "admin"
    THEN (IF TruthyStr(orgId) THEN row.org_id = orgId ELSE TRUE)
    ELSE (IF TruthyNum(branchId) THEN row.branch_id = branchId ELSE TRUE)

\* a timestamp column keeps the instant and renders it in its own format
DbTimestamp(value) ==
    IF Falsy(value) \/ IsNaNDate(value) THEN DNull ELSE Pg(GetTime(value))

\* sort key of .order('created_at', { ascending: false }): nulls come first
OrderKey(row) ==
    IF row.created_at = DNull THEN MaxClock + 10 ELSE GetTime(row.created_at)

\* every order in which the backend may return the rows S, newest first,
\* rows with equal created_at in any order
OrderedDesc(S) ==
    {f \in [1..Cardinality(S) -> S] :
        /\ \A i, j \in 1..Cardinality(S) : i # j => f[i] # f[j]
        /\ \A i, j \in 1..Cardinality(S) : i < j => OrderKey(f[i]) >= OrderKey(f[j])}

\* INSERT ... RETURNING: the stored row
InsertedRow(insertPayload, id) ==
    [k \in DOMAIN insertPayload \cup {"id"} |->
        IF k = "id" THEN id
        ELSE IF k = "created_at" THEN DbTimestamp(insertPayload[k])
        ELSE insertPayload[k]]

\* UPDATE ... RETURNING: the row with the columns of updates overwritten
UpdatedRow(row, updates) ==
    [k \in DOMAIN row |->
        IF k \in DOMAIN updates
        THEN (IF k = "created_at" THEN DbTimestamp(updates[k]) ELSE updates[k])
        ELSE row[k]]

\* ------------------------------------------------------------------------
\* Merge step of fetchCashflows
\* ------------------------------------------------------------------------
\* the readings of the clock while n rows are mapped one after the other:
\* each row's mapper reads it for itself (lines 79, 84), time does not go back
Clocks(n) ==
    {nows \in [1..n -> Instants] : \A i, j \in 1..n : i < j => nows[i] <= nows[j]}

\* rows.map(mapIncomeRow) / rows.map(mapExpenseRow), row i mapped at nows[i]
MapSeq(table, rows, nows) ==
    [i \in 1..Len(rows) |-> MapRow(table, rows[i], nows[i])]

\* (a, b) => new Date(b.date).getTime() - new Date(a.date).getTime()
Compare(a, b) == GetTime(b.date) - GetTime(a.date)

RECURSIVE InsertSorted(_, _)
\* x goes behind every element that does not compare after it (stable)
InsertSorted(sorted, x) ==
    IF sorted = <<>> THEN <<x>>
    ELSE IF Compare(Head(sorted), x) <= 0
         THEN <<Head(sorted)>> \o InsertSorted(Tail(sorted), x)
         ELSE <<x>> \o sorted

RECURSIVE SortCombinedFrom(_, _)
SortCombinedFrom(sorted, rest) ==
    IF rest = <<>> THEN sorted
    ELSE SortCombinedFrom(InsertSorted(sorted, Head(rest)), Tail(rest))

SortCombinedUnsorted(combined) == combined

\* Array.prototype.sort with the comparator above
SortCombined(combined) == SortCombinedFrom(<<>>, combined)

CombineIncomeOnly(incomeEntries, expenseEntries) == SortCombined(incomeEntries)

\* [...incomeEntries, ...expenseEntries].sort(...)
Combine(incomeEntries, expenseEntries) ==
    SortCombined(incomeEntries \o expenseEntries)

\* ------------------------------------------------------------------------
\* Ledger mirror
\* ------------------------------------------------------------------------
\* `${orgId}-${branchId}`
SmeId(orgId, branchId) ==
    orgId \o "-" \o (IF branchId = NullNum THEN "null" ELSE ToString(branchId))

Matches(tx, existing) ==
    /\ tx.amount = existing.amount
    /\ tx.category = existing.name
    /\ tx.type = existing.category

FindMatchLast(txns, existing) ==
    LET idx == {i \in 1..Len(txns) : Matches(txns[i], existing)}
    IN  IF idx = {} THEN 0 ELSE CHOOSE i \in idx : \A j \in idx : j <= i

FindMatchOrFirst(txns, existing) ==
    LET idx == {i \in 1..Len(txns) : Matches(txns[i], existing)}
    IN  IF idx = {} THEN (IF txns = <<>> THEN 0 ELSE 1)
        ELSE CHOOSE i \in idx : \A j \in idx : i <= j

\* blockchainTxns.find(...): the index of the first match, 0 when undefined
FindMatch(txns, existing) ==
    LET idx == {i \in 1..Len(txns) : Matches(txns[i], existing)}
    IN  IF idx = {} THEN 0 ELSE CHOOSE i \in idx : \A j \in idx : i <= j

\* the mirror after DELETE /api/transactions/{id}
MirrorWithout(entries, id) == SelectSeq(entries, LAMBDA e : e.id # id)

\* the same with the entry's type and category taken from each other's field
MirrorEntrySwapped(id, smeId, type, amount, category, description, date) ==
    [id |-> id, smeId |-> smeId, type |-> category, amount |-> amount,
     category |-> type, description |-> description, date |-> date]

MirrorEntry(id, smeId, type, amount, category, description, date) ==
    [id |-> id, smeId |-> smeId, type |-> type, amount |-> amount,
     category |-> category, description |-> description, date |-> date]

\* ------------------------------------------------------------------------
\* Inputs
\* ------------------------------------------------------------------------
OrgA == "org-a"

\* the organisation a registration creates
OrgNew == "org-new"

OrgB == "org-b"

ProfileRow(role, branch_id, org_id) ==
    [exists |-> TRUE, role |-> role, branch_id |-> branch_id, org_id |-> org_id]

\* no row in the profiles table for the signed-in user
NoProfileRow ==
    [exists |-> FALSE, role |-> Null, branch_id |-> NullNum, org_id |-> Null]

\* the row of an account that has signed up and is not set up yet
FreshProfile == ProfileRow(Null, NullNum, Null)

ProfileRows ==
    {ProfileRow("user", 1, OrgA), ProfileRow("admin", NullNum, OrgA),
     ProfileRow("admin", NullNum, Null), FreshProfile}

\* the branches the user dialog offers, and "unassigned"
BranchChoices == {NullNum, 1, 2}

\* CashflowInput values handed to addCashflow
AddPayloads ==
    {[name |-> "Sales", category |-> "income", amount |-> 1, date |-> Ymd(1),
      description |-> "note"],
     [name |-> "Sales", category |-> "expense", amount |-> 1, date |-> Ymd(2),
      description |-> "note"],
     [name |-> "Sales", category |-> "expense", amount |-> 2, date |-> DGarbage]}

\* Partial<CashflowInput> values handed to updateCashflow
UpdatePayloads ==
    {[amount |-> 2],
     [name |-> "Rent", description |-> "memo"],
     [description |-> Null, date |-> DGarbage],
     [amount |-> 1, date |-> Ymd(2)]}

\* an id no record has
StaleId == UnifiedId(EXPENSE_TABLE, 9999)

\* what earlier sessions left behind: an income row of branch 1 of OrgA and
\* an expense row of another tenant, each with its mirror entry
SeedIncomeRow ==
    [id |-> 1, branch_id |-> 1, user_id |-> UserId, org_id |-> OrgA,
     created_at |-> Pg(1), amount |-> 1, income_type |-> "Sales",
     cashflow_id |-> NullNum]

ForeignExpenseRow ==
    [id |-> 1, branch_id |-> 2, user_id |-> "user-2", org_id |-> OrgB,
     created_at |-> Pg(2), amount |-> 1, expense_category |-> "Sales",
     description |-> Null, cashflow_id |-> NullNum]

SeedMirror ==
    <<MirrorEntry(1, SmeId(OrgB, 2), "expense", 1, "Sales", "", Ymd(2)),
      MirrorEntry(2, SmeId(OrgA, 1), "income", 1, "Sales", "", Ymd(1))>>

\* ------------------------------------------------------------------------
\* State
\* ------------------------------------------------------------------------
VARIABLES
    cashflows,   \* store state: Cashflow[]
    isLoading,   \* store state
    error,       \* store state: string | null
    userRole,    \* store state: string | null
    session,     \* auth client: the id of the signed-in user | "nouser"
    profiles,    \* profiles table: user id -> the row of that account
    edits,       \* writes of other handlers to session and profiles so far
    db,          \* relational backend: table name -> set of rows
    nextId,      \* relational backend: table name -> next serial id
    mirror,      \* ledger mirror: sequence of entries, oldest first
    mirrorNext,  \* ledger mirror: next entry id
    calls,       \* the store calls: position and locals of each
    ops,         \* number of calls started so far
    last,        \* what the call before the current one of the session came to
    mrow,        \* Record Mapper harness: the row being mapped
    mtable,      \* Record Mapper harness: its table
    mout         \* Record Mapper harness: the outputs, in call order

vars == <<cashflows, isLoading, error, userRole, session, profiles, edits, db,
          nextId, mirror, mirrorNext, calls, ops, last, mrow, mtable, mout>>

storeVars == <<cashflows, isLoading, error, userRole>>

backendVars == <<db, nextId>>

mirrorVars == <<mirror, mirrorNext>>

envVars == <<session, profiles, edits>>

mapperVars == <<mrow, mtable, mout>>

\* ------------------------------------------------------------------------
\* Calls
\* ------------------------------------------------------------------------
AllSlots == {1, 2}

NoCashflow ==
    [id |-> UnifiedId("", 0), sourceId |-> 0, sourceTable |-> "", name |-> "",
     category |-> "", amount |-> 0, date |-> DNull, description |-> Null,
     branchId |-> NullNum, cashflowId |-> NullNum, orgId |-> Null]

Pending == [kind |-> "pending", err |-> Null, value |-> NoCashflow]

\* a call's outcome: resolved with undefined / null / a record, or rejected
Resolved(kind, value) == [kind |-> kind, err |-> Null, value |-> value]

Rejected(message) == [kind |-> "throw", err |-> message, value |-> NoCashflow]

NoQuery == [state |-> "pending", data |-> <<>>]

Event(ev, out) == [ev |-> ev, out |-> out]

IdleCall ==
    [op |-> "none", pc |-> "idle", id |-> UnifiedId("", 0), payload |-> EmptyObj,
     prof |-> Failed(Null), existing |-> NoCashflow, updates |-> EmptyObj,
     normalized |-> NoCashflow, incomeRes |-> NoQuery, expenseRes |-> NoQuery,
     txns |-> <<>>, matching |-> 0, before |-> <<>>, result |-> Pending,
     log |-> <<>>, seq |-> 0, unechoed |-> FALSE]

\* lines 386-390: an updateCashflow of the session, this one or an earlier
\* one, got no row back from its update and returned null before the mirror
Unechoed(c) ==
    \/ c.unechoed
    \/ \E k \in 1..Len(c.log) : c.log[k] = Event("update", "nodata")

\* what is kept of a call once the session has moved on to the next
Summary(c) == [op |-> c.op, result |-> c.result, prof |-> c.prof]

Free(i) == calls[i].pc \in {"idle", "done"} /\ ops < MaxOps

Logged(c, ev, out) == [c EXCEPT !.log = Append(@, Event(ev, out))]

Finish(c, result) == [c EXCEPT !.pc = "done", !.result = result]

\* the outcomes of one remote call
AuthOutcomes == {"error", session}

\* .eq('id', user.id).single() on the profiles table (lines 145-149)
ProfileOf(userId) == profiles[userId]

ProfileOutcomes(userId) ==
    IF ProfileOf(userId).exists THEN {"error", "row"} ELSE {"error", "nodata"}

MirrorOutcomes == {"ok", "throw", "non2xx"}

Init ==
    /\ cashflows = <<>>
    /\ isLoading = FALSE
    /\ error = Null
    /\ userRole = Null
    /\ session \in {UserId, "nouser"}
    /\ \E row \in ProfileRows \cup {NoProfileRow} :
        profiles = (UserId :> row) @@ (AdminId :> ProfileRow("admin", NullNum, OrgA))
    /\ edits = 0
    /\ \E seeded \in BOOLEAN :
        /\ db = IF seeded
                THEN (INCOME_TABLE :> {SeedIncomeRow}) @@ (EXPENSE_TABLE :> {ForeignExpenseRow})
                ELSE (INCOME_TABLE :> {}) @@ (EXPENSE_TABLE :> {})
        /\ nextId = (INCOME_TABLE :> (IF seeded THEN 2 ELSE 1))
                     @@ (EXPENSE_TABLE :> (IF seeded THEN 2 ELSE 1))
        /\ mirror = IF seeded THEN SeedMirror ELSE <<>>
        /\ mirrorNext = IF seeded THEN 3 ELSE 1
    /\ calls = [i \in AllSlots |-> IdleCall]
    /\ ops = 0
    /\ last = Summary(IdleCall)
    /\ mrow = ForeignExpenseRow
    /\ mtable = EXPENSE_TABLE
    /\ mout = <<>>

\* the store as constructed (lines 227-230), nothing stored, nobody signed in
Constructed ==
    /\ cashflows = <<>>
    /\ isLoading = FALSE
    /\ error = Null
    /\ userRole = Null
    /\ session = "nouser"
    /\ profiles = [a \in AccountIds |-> NoProfileRow]
    /\ edits = 0
    /\ db = (INCOME_TABLE :> {}) @@ (EXPENSE_TABLE :> {})
    /\ nextId = (INCOME_TABLE :> 1) @@ (EXPENSE_TABLE :> 1)
    /\ mirror = <<>>
    /\ mirrorNext = 1
    /\ calls = [i \in AllSlots |-> IdleCall]
    /\ ops = 0
    /\ last = Summary(IdleCall)

\* ------------------------------------------------------------------------
\* fetchCashflows
\* ------------------------------------------------------------------------
\* the catch block: error instanceof Error ? error.message : 'Unknown error'
CatchMessage(isErrorInstance, message) ==
    IF isErrorInstance THEN message ELSE ErrUnknown

\* line 232, up to the first await
FetchStart(i) ==
    /\ Free(i)
    /\ isLoading' = TRUE
    /\ error' = Null
    /\ calls' = [calls EXCEPT ![i] =
                    [IdleCall EXCEPT !.op = "fetch", !.pc = "f_auth",
                                     !.seq = ops + 1,
                                     !.unechoed = Unechoed(calls[i])]]
    /\ ops' = ops + 1
    /\ last' = Summary(calls[i])
    /\ UNCHANGED <<cashflows, userRole, envVars, backendVars, mirrorVars,
                   mapperVars>>

\* line 236 with 132-143: auth.getUser() answers; without a user ensureProfile
\* rejects and the catch runs, with one the profiles query is sent
FetchAuth(i) ==
    /\ calls[i].pc = "f_auth"
    /\ \E a \in AuthOutcomes :
        LET p == getUser(a)
        IN  IF p.ok
            THEN /\ calls' = [calls EXCEPT ![i] =
                                [calls[i] EXCEPT !.pc = "f_profile", !.prof = p]]
                 /\ UNCHANGED storeVars
            ELSE /\ isLoading' = FALSE
                 /\ error' = p.err
                 /\ cashflows' = <<>>
                 /\ calls' = [calls EXCEPT ![i] =
                                Finish([Logged(calls[i], "profile", "throw")
                                            EXCEPT !.prof = p], Rejected(p.err))]
                 /\ UNCHANGED userRole
    /\ UNCHANGED <<envVars, backendVars, mirrorVars, ops, last, mapperVars>>

\* line 236-238 with 145-171: the profiles query answers; ensureProfile
\* resolves or rejects, a rejection runs the catch
FetchProfile(i) ==
    /\ calls[i].pc = "f_profile"
    /\ \E q \in ProfileOutcomes(calls[i].prof.userId) :
        LET p == ensureProfile(calls[i].prof.userId, q, ProfileOf(calls[i].prof.userId))
            c == Logged(calls[i], "profile", IF p.ok THEN "ok" ELSE "throw")
        IN  IF p.ok
            THEN /\ userRole' = p.role
                 /\ calls' = [calls EXCEPT ![i] =
                                [c EXCEPT !.pc = "f_query", !.prof = p]]
                 /\ UNCHANGED <<cashflows, isLoading, error>>
            ELSE /\ isLoading' = FALSE
                 /\ error' = p.err
                 /\ cashflows' = <<>>
                 /\ calls' = [calls EXCEPT ![i] =
                                Finish([c EXCEPT !.prof = p], Rejected(p.err))]
                 /\ UNCHANGED userRole
    /\ UNCHANGED <<envVars, backendVars, mirrorVars, ops, last, mapperVars>>

\* the rows one of the two queries of lines 240-266 selects
Selected(table, p) ==
    {row \in db[table] : ScopeFilter(p.role, p.branchId, p.orgId, row)}

QueryOutcomes(table, p) ==
    {[state |-> "error", data |-> <<>>], [state |-> "errorObject", data |-> <<>>]}
    \cup {[state |-> "ok", data |-> rows] : rows \in OrderedDesc(Selected(table, p))}

\* the backend answers the income query
FetchIncomeQuery(i) ==
    /\ calls[i].pc = "f_query"
    /\ calls[i].incomeRes.state = "pending"
    /\ \E r \in QueryOutcomes(INCOME_TABLE, calls[i].prof) :
        calls' = [calls EXCEPT ![i] =
                    [Logged(calls[i], "income_query", r.state) EXCEPT !.incomeRes = r]]
    /\ UNCHANGED <<storeVars, envVars, backendVars, mirrorVars, ops, last,
                   mapperVars>>

\* the backend answers the expense query
FetchExpenseQuery(i) ==
    /\ calls[i].pc = "f_query"
    /\ calls[i].expenseRes.state = "pending"
    /\ \E r \in QueryOutcomes(EXPENSE_TABLE, calls[i].prof) :
        calls' = [calls EXCEPT ![i] =
                    [Logged(calls[i], "expense_query", r.state) EXCEPT !.expenseRes = r]]
    /\ UNCHANGED <<storeVars, envVars, backendVars, mirrorVars, ops, last,
                   mapperVars>>

\* the same, with the response of a fetch dropped while another is in flight
FetchSettleDropping(i) ==
    /\ calls[i].pc = "f_query"
    /\ calls[i].incomeRes.state # "pending"
    /\ calls[i].expenseRes.state # "pending"
    /\ \E nows \in Clocks(Len(calls[i].incomeRes.data) + Len(calls[i].expenseRes.data)) :
       LET c == calls[i]
           failed == IF c.incomeRes.state # "ok" THEN c.incomeRes.state
                     ELSE IF c.expenseRes.state # "ok" THEN c.expenseRes.state
                     ELSE "ok"
           message == CatchMessage(failed = "error", ErrDb)
           ni == Len(c.incomeRes.data)
           incomeEntries == MapSeq(INCOME_TABLE, c.incomeRes.data, nows)
           expenseEntries == MapSeq(EXPENSE_TABLE, c.expenseRes.data,
                                    [k \in 1..Len(c.expenseRes.data) |-> nows[ni + k]])
           stale == \E j \in AllSlots \ {i} :
                        calls[j].op = "fetch" /\ calls[j].pc \notin {"idle", "done"}
       IN  IF stale
           THEN /\ UNCHANGED <<cashflows, isLoading, error>>
                /\ calls' = [calls EXCEPT ![i] =
                               Finish(c, IF failed = "ok" THEN Resolved("void", NoCashflow)
                                         ELSE Rejected(ErrDb))]
           ELSE IF failed = "ok"
           THEN /\ cashflows' = Combine(incomeEntries, expenseEntries)
                /\ isLoading' = FALSE
                /\ error' = Null
                /\ calls' = [calls EXCEPT ![i] =
                               Finish([Logged(c, "set", "ok") EXCEPT !.before = cashflows],
                                      Resolved("void", NoCashflow))]
           ELSE /\ cashflows' = <<>>
                /\ isLoading' = FALSE
                /\ error' = message
                /\ calls' = [calls EXCEPT ![i] =
                               Finish([Logged(c, "set", "throw") EXCEPT !.before = cashflows],
                                      Rejected(ErrDb))]
    /\ UNCHANGED <<userRole, envVars, backendVars, mirrorVars, ops, last,
                   mapperVars>>

\* lines 268-299: Promise.all has both results; merge, or throw into the catch
FetchSettle(i) ==
    /\ calls[i].pc = "f_query"
    /\ calls[i].incomeRes.state # "pending"
    /\ calls[i].expenseRes.state # "pending"
    /\ \E nows \in Clocks(Len(calls[i].incomeRes.data) + Len(calls[i].expenseRes.data)) :
       LET c == calls[i]
           failed == IF c.incomeRes.state # "ok" THEN c.incomeRes.state
                     ELSE IF c.expenseRes.state # "ok" THEN c.expenseRes.state
                     ELSE "ok"
           message == CatchMessage(failed = "error", ErrDb)
           ni == Len(c.incomeRes.data)
           incomeEntries == MapSeq(INCOME_TABLE, c.incomeRes.data, nows)
           expenseEntries == MapSeq(EXPENSE_TABLE, c.expenseRes.data,
                                    [k \in 1..Len(c.expenseRes.data) |-> nows[ni + k]])
       IN  IF failed = "ok"
           THEN /\ cashflows' = Combine(incomeEntries, expenseEntries)
                /\ isLoading' = FALSE
                /\ error' = Null
                /\ calls' = [calls EXCEPT ![i] =
                               Finish([Logged(c, "set", "ok") EXCEPT !.before = cashflows],
                                      Resolved("void", NoCashflow))]
           ELSE /\ cashflows' = <<>>
                /\ isLoading' = FALSE
                /\ error' = message
                /\ calls' = [calls EXCEPT ![i] =
                               Finish([Logged(c, "set", "throw") EXCEPT !.before = cashflows],
                                      Rejected(ErrDb))]
    /\ UNCHANGED <<userRole, envVars, backendVars, mirrorVars, ops, last,
                   mapperVars>>

\* ------------------------------------------------------------------------
\* addCashflow
\* ------------------------------------------------------------------------
TableOf(category) == IF category = "income" THEN INCOME_TABLE ELSE EXPENSE_TABLE

\* where a try block around a mirror call continues: behind the try/catch
\* statement when the call throws (the catch swallows it), at the next
\* statement of the block otherwise
TryMirrorRethrow(out, next, afterCatch) == IF out = "throw" THEN "rethrow" ELSE next

TryMirror(out, next, afterCatch) == IF out = "throw" THEN afterCatch ELSE next

\* line 302-304, up to the first await
AddStart(i) ==
    /\ Free(i)
    /\ \E payload \in AddPayloads :
        calls' = [calls EXCEPT ![i] =
                    [IdleCall EXCEPT !.op = "add", !.pc = "a_auth",
                                     !.payload = payload, !.seq = ops + 1,
                                     !.unechoed = Unechoed(calls[i])]]
    /\ ops' = ops + 1
    /\ last' = Summary(calls[i])
    /\ UNCHANGED <<storeVars, envVars, backendVars, mirrorVars, mapperVars>>

\* line 304 with 132-143: auth.getUser() answers, outside any try block
AddAuth(i) ==
    /\ calls[i].pc = "a_auth"
    /\ \E a \in AuthOutcomes :
        LET p == getUser(a)
        IN  calls' = [calls EXCEPT ![i] =
                        IF p.ok THEN [calls[i] EXCEPT !.pc = "a_profile", !.prof = p]
                        ELSE Finish([Logged(calls[i], "profile", "throw")
                                        EXCEPT !.prof = p], Rejected(p.err))]
    /\ UNCHANGED <<storeVars, envVars, backendVars, mirrorVars, ops, last,
                   mapperVars>>

\* line 304 with 145-171: the profiles query answers
AddProfile(i) ==
    /\ calls[i].pc = "a_profile"
    /\ \E q \in ProfileOutcomes(calls[i].prof.userId) :
        LET p == ensureProfile(calls[i].prof.userId, q, ProfileOf(calls[i].prof.userId))
            c == [Logged(calls[i], "profile", IF p.ok THEN "ok" ELSE "throw")
                    EXCEPT !.prof = p]
        IN  calls' = [calls EXCEPT ![i] =
                        IF p.ok THEN [c EXCEPT !.pc = "a_insert"]
                        ELSE Finish(c, Rejected(p.err))]
    /\ UNCHANGED <<storeVars, envVars, backendVars, mirrorVars, ops, last,
                   mapperVars>>

\* lines 308-330: the insert and the mapping of the echoed row
AddInsert(i) ==
    /\ calls[i].pc = "a_insert"
    /\ \E now \in Instants :
       LET c == calls[i]
           table == TableOf(c.payload["category"])
           insertPayload == buildInsertPayload(c.payload, c.prof.branchId,
                                               c.prof.userId, c.prof.orgId, now)
           row == InsertedRow(insertPayload, nextId[table])
       IN  \E out \in {"error", "nodata", "row"} :
            IF out = "error"
            THEN /\ calls' = [calls EXCEPT ![i] =
                                Finish(Logged(c, "insert", out), Rejected(ErrDb))]
                 /\ UNCHANGED backendVars
            ELSE /\ db' = [db EXCEPT ![table] = @ \cup {row}]
                 /\ nextId' = [nextId EXCEPT ![table] = @ + 1]
                 /\ calls' = [calls EXCEPT ![i] =
                      IF out = "nodata"
                      THEN Finish(Logged(c, "insert", out), Resolved("null", NoCashflow))
                      ELSE [Logged(c, "insert", out) EXCEPT
                                !.pc = "a_mirror",
                                !.normalized = MapRow(table, row, now)]]
    /\ UNCHANGED <<storeVars, envVars, mirrorVars, ops, last, mapperVars>>

\* lines 333-345: createBlockchainTransaction inside try/catch
AddMirror(i) ==
    /\ calls[i].pc = "a_mirror"
    /\ LET c == calls[i]
           entry == MirrorEntry(mirrorNext,
                                SmeId(c.prof.orgId, c.prof.branchId),
                                c.payload["category"], c.payload["amount"],
                                c.payload["name"],
                                DescriptionOrEmpty(DescriptionOrNull(c.payload)),
                                c.payload["date"])
       IN  \E out \in MirrorOutcomes :
            /\ IF out = "ok"
               THEN mirror' = Append(mirror, entry) /\ mirrorNext' = mirrorNext + 1
               ELSE UNCHANGED mirrorVars
            /\ LET pc == TryMirror(out, "a_set", "a_set")
               IN  calls' = [calls EXCEPT ![i] =
                      IF pc = "rethrow"
                      THEN Finish(Logged(c, "mcreate", out), Rejected("mirror error"))
                      ELSE [Logged(c, "mcreate", out) EXCEPT !.pc = pc]]
    /\ UNCHANGED <<storeVars, envVars, backendVars, ops, last, mapperVars>>

PrependToAppended(list, record) == list \o <<record>>

\* [normalized, ...state.cashflows]
PrependTo(list, record) == <<record>> \o list

\* lines 347-350
AddSet(i) ==
    /\ calls[i].pc = "a_set"
    /\ cashflows' = PrependTo(cashflows, calls[i].normalized)
    /\ calls' = [calls EXCEPT ![i] =
                    Finish([Logged(calls[i], "set", "ok") EXCEPT !.before = cashflows],
                           Resolved("record", calls[i].normalized))]
    /\ UNCHANGED <<isLoading, error, userRole, envVars, backendVars, mirrorVars,
                   ops, last, mapperVars>>

\* ------------------------------------------------------------------------
\* updateCashflow
\* ------------------------------------------------------------------------
FindByIdAssign(list, id) == IF list = <<>> THEN 0 ELSE 1

\* get().cashflows.find((cf) => cf.id === id): the index, 0 when undefined
FindById(list, id) ==
    LET idx == {k \in 1..Len(list) : list[k].id = id}
    IN  IF idx = {} THEN 0 ELSE CHOOSE k \in idx : \A j \in idx : k <= j

\* the id of the income row earlier sessions left behind
SeedId == UnifiedId(INCOME_TABLE, 1)

\* the ids a caller can pass: those it sees in the list, one it kept from an
\* earlier session, and a stale one
CallableIds == {cashflows[k].id : k \in 1..Len(cashflows)} \cup {SeedId, StaleId}

RowsWithId(table, id) == {row \in db[table] : row.id = id}

\* lines 353-373, up to the first await
UpdateStart(i) ==
    /\ Free(i)
    /\ \E id \in CallableIds, payload \in UpdatePayloads :
        LET k == FindById(cashflows, id)
            c == [IdleCall EXCEPT !.op = "update", !.id = id, !.payload = payload,
                                  !.seq = ops + 1,
                                  !.unechoed = Unechoed(calls[i])]
        IN  calls' = [calls EXCEPT ![i] =
                IF k = 0 THEN Finish(c, Rejected(ErrNotFound))
                ELSE [c EXCEPT !.pc = "u_update",
                               !.existing = cashflows[k],
                               !.updates = UpdatePayload(payload, cashflows[k])]]
    /\ ops' = ops + 1
    /\ last' = Summary(calls[i])
    /\ UNCHANGED <<storeVars, envVars, backendVars, mirrorVars, mapperVars>>

\* lines 374-395: the update and the mapping of the echoed row
UpdatePrimary(i) ==
    /\ calls[i].pc = "u_update"
    /\ \E now \in Instants :
       LET c == calls[i]
           table == c.existing.sourceTable
           rows == RowsWithId(table, c.existing.sourceId)
           valid == \A row \in rows : DOMAIN c.updates \subseteq DOMAIN row
           outs == IF ~valid THEN {"error"}
                   ELSE IF rows = {} THEN {"error", "nodata"}
                   ELSE {"error", "nodata", "row"}
       IN  \E out \in outs :
            IF out = "error"
            THEN /\ calls' = [calls EXCEPT ![i] =
                                Finish(Logged(c, "update", out), Rejected(ErrDb))]
                 /\ UNCHANGED backendVars
            ELSE /\ db' = [db EXCEPT ![table] =
                              {IF row \in rows THEN UpdatedRow(row, c.updates) ELSE row
                                  : row \in @}]
                 /\ UNCHANGED nextId
                 /\ calls' = [calls EXCEPT ![i] =
                      IF out = "nodata"
                      THEN Finish(Logged(c, "update", out), Resolved("null", NoCashflow))
                      ELSE LET row == CHOOSE r \in rows : TRUE
                           IN  [Logged(c, "update", out) EXCEPT
                                    !.pc = "u_list",
                                    !.normalized =
                                        MapRow(table, UpdatedRow(row, c.updates), now)]]
    /\ UNCHANGED <<storeVars, envVars, mirrorVars, ops, last, mapperVars>>

\* lines 399-406: getBlockchainTransactions and the search for a match;
\* a body that is not an array makes .find throw inside the try block
UpdateMirrorList(i) ==
    /\ calls[i].pc = "u_list"
    /\ LET c == calls[i]
       IN  \E out \in MirrorOutcomes :
            LET m == IF out = "ok" THEN FindMatch(mirror, c.existing) ELSE 0
                pc == IF out = "non2xx" THEN TryMirror("throw", "u_delete", "u_set")
                      ELSE TryMirror(out, IF m # 0 THEN "u_delete" ELSE "u_auth",
                                     "u_set")
            IN  calls' = [calls EXCEPT ![i] =
                    IF pc = "rethrow"
                    THEN Finish(Logged(c, "mlist", out), Rejected("mirror error"))
                    ELSE [Logged(c, "mlist", out) EXCEPT
                            !.pc = pc,
                            !.txns = IF out = "ok" THEN mirror ELSE <<>>,
                            !.matching = m]]
    /\ UNCHANGED <<storeVars, envVars, backendVars, mirrorVars, ops, last,
                   mapperVars>>

\* lines 408-411: deleteBlockchainTransaction(matchingTx.id)
UpdateMirrorDelete(i) ==
    /\ calls[i].pc = "u_delete"
    /\ LET c == calls[i]
           target == c.txns[c.matching].id
       IN  \E out \in MirrorOutcomes :
            /\ mirror' = IF out = "ok" THEN MirrorWithout(mirror, target) ELSE mirror
            /\ LET pc == TryMirror(out, "u_auth", "u_set")
               IN  calls' = [calls EXCEPT ![i] =
                      IF pc = "rethrow"
                      THEN Finish(Logged(c, "mdelete", out), Rejected("mirror error"))
                      ELSE [Logged(c, "mdelete", out) EXCEPT !.pc = pc]]
    /\ UNCHANGED <<storeVars, envVars, backendVars, mirrorNext, ops, last,
                   mapperVars>>

\* line 417 with 132-143: auth.getUser() answers, inside the try block
UpdateAuth(i) ==
    /\ calls[i].pc = "u_auth"
    /\ \E a \in AuthOutcomes :
        LET p == getUser(a)
            pc == TryMirror(IF p.ok THEN "ok" ELSE "throw", "u_profile", "u_set")
        IN  calls' = [calls EXCEPT ![i] =
                IF p.ok THEN [calls[i] EXCEPT !.pc = pc, !.prof = p]
                ELSE IF pc = "rethrow"
                THEN Finish([Logged(calls[i], "profile", "throw") EXCEPT !.prof = p],
                            Rejected(p.err))
                ELSE [Logged(calls[i], "profile", "throw") EXCEPT !.pc = pc, !.prof = p]]
    /\ UNCHANGED <<storeVars, envVars, backendVars, mirrorVars, ops, last,
                   mapperVars>>

\* line 417 with 145-171: the profiles query answers, inside the try block
UpdateProfile(i) ==
    /\ calls[i].pc = "u_profile"
    /\ \E q \in ProfileOutcomes(calls[i].prof.userId) :
        LET p == ensureProfile(calls[i].prof.userId, q, ProfileOf(calls[i].prof.userId))
            c == [Logged(calls[i], "profile", IF p.ok THEN "ok" ELSE "throw")
                    EXCEPT !.prof = p]
            pc == TryMirror(IF p.ok THEN "ok" ELSE "throw", "u_create", "u_set")
        IN  calls' = [calls EXCEPT ![i] =
                IF pc = "rethrow" THEN Finish(c, Rejected(p.err))
                ELSE [c EXCEPT !.pc = pc]]
    /\ UNCHANGED <<storeVars, envVars, backendVars, mirrorVars, ops, last,
                   mapperVars>>

\* the same with the values of the record as it was before the update
UpdateMirrorCreateStale(i) ==
    /\ calls[i].pc = "u_create"
    /\ LET c == calls[i]
           n == c.existing
           entry == MirrorEntry(mirrorNext,
                                SmeId(c.prof.orgId, c.prof.branchId),
                                n.category, n.amount, n.name,
                                DescriptionOrEmpty(n.description), n.date)
       IN  \E out \in MirrorOutcomes :
            /\ IF out = "ok"
               THEN mirror' = Append(mirror, entry) /\ mirrorNext' = mirrorNext + 1
               ELSE UNCHANGED mirrorVars
            /\ calls' = [calls EXCEPT ![i] =
                            [Logged(c, "mcreate", out) EXCEPT !.pc = "u_set"]]
    /\ UNCHANGED <<storeVars, envVars, backendVars, ops, last, mapperVars>>

\* lines 419-427: createBlockchainTransaction with the updated values
UpdateMirrorCreate(i) ==
    /\ calls[i].pc = "u_create"
    /\ LET c == calls[i]
           n == c.normalized
           entry == MirrorEntry(mirrorNext,
                                SmeId(c.prof.orgId, c.prof.branchId),
                                n.category, n.amount, n.name,
                                DescriptionOrEmpty(n.description), n.date)
       IN  \E out \in MirrorOutcomes :
            /\ IF out = "ok"
               THEN mirror' = Append(mirror, entry) /\ mirrorNext' = mirrorNext + 1
               ELSE UNCHANGED mirrorVars
            /\ LET pc == TryMirror(out, "u_set", "u_set")
               IN  calls' = [calls EXCEPT ![i] =
                      IF pc = "rethrow"
                      THEN Finish(Logged(c, "mcreate", out), Rejected("mirror error"))
                      ELSE [Logged(c, "mcreate", out) EXCEPT !.pc = pc]]
    /\ UNCHANGED <<storeVars, envVars, backendVars, ops, last, mapperVars>>

ReplaceByIdFirst(list, id, record) ==
    [k \in 1..Len(list) |-> IF k = 1 THEN record ELSE list[k]]

\* state.cashflows.map((cf) => (cf.id === id ? normalized : cf))
ReplaceById(list, id, record) ==
    [k \in 1..Len(list) |-> IF list[k].id = id THEN record ELSE list[k]]

\* lines 432-437
UpdateSet(i) ==
    /\ calls[i].pc = "u_set"
    /\ cashflows' = ReplaceById(cashflows, calls[i].id, calls[i].normalized)
    /\ calls' = [calls EXCEPT ![i] =
                    Finish([Logged(calls[i], "set", "ok") EXCEPT !.before = cashflows],
                           Resolved("record", calls[i].normalized))]
    /\ UNCHANGED <<isLoading, error, userRole, envVars, backendVars, mirrorVars,
                   ops, last, mapperVars>>

\* ------------------------------------------------------------------------
\* deleteCashflow
\* ------------------------------------------------------------------------
\* lines 440-445, up to the first await
DeleteStart(i) ==
    /\ Free(i)
    /\ \E id \in CallableIds :
        LET k == FindById(cashflows, id)
            c == [IdleCall EXCEPT !.op = "delete", !.id = id, !.seq = ops + 1,
                                  !.unechoed = Unechoed(calls[i])]
        IN  calls' = [calls EXCEPT ![i] =
                IF k = 0 THEN Finish(c, Rejected(ErrNotFound))
                ELSE [c EXCEPT !.pc = "d_delete", !.existing = cashflows[k]]]
    /\ ops' = ops + 1
    /\ last' = Summary(calls[i])
    /\ UNCHANGED <<storeVars, envVars, backendVars, mirrorVars, mapperVars>>

\* the same without the check of lines 452-455
DeletePrimaryUnchecked(i) ==
    /\ calls[i].pc = "d_delete"
    /\ LET c == calls[i]
           table == c.existing.sourceTable
       IN  \E out \in {"error", "ok"} :
            /\ db' = IF out = "error" THEN db
                     ELSE [db EXCEPT ![table] = @ \ RowsWithId(table, c.existing.sourceId)]
            /\ calls' = [calls EXCEPT ![i] =
                            [Logged(c, "delete", out) EXCEPT !.pc = "d_list"]]
    /\ UNCHANGED <<storeVars, envVars, nextId, mirrorVars, ops, last, mapperVars>>

\* lines 447-455
DeletePrimary(i) ==
    /\ calls[i].pc = "d_delete"
    /\ LET c == calls[i]
           table == c.existing.sourceTable
       IN  \E out \in {"error", "ok"} :
            IF out = "error"
            THEN /\ calls' = [calls EXCEPT ![i] =
                                Finish(Logged(c, "delete", out), Rejected(ErrDb))]
                 /\ UNCHANGED db
            ELSE /\ db' = [db EXCEPT ![table] = @ \ RowsWithId(table, c.existing.sourceId)]
                 /\ calls' = [calls EXCEPT ![i] =
                                [Logged(c, "delete", out) EXCEPT !.pc = "d_list"]]
    /\ UNCHANGED <<storeVars, envVars, nextId, mirrorVars, ops, last, mapperVars>>

\* lines 458-464
DeleteMirrorList(i) ==
    /\ calls[i].pc = "d_list"
    /\ LET c == calls[i]
       IN  \E out \in MirrorOutcomes :
            LET m == IF out = "ok" THEN FindMatch(mirror, c.existing) ELSE 0
                pc == IF out = "non2xx" THEN TryMirror("throw", "d_mdelete", "d_set")
                      ELSE TryMirror(out, IF m # 0 THEN "d_mdelete" ELSE "d_set",
                                     "d_set")
            IN  calls' = [calls EXCEPT ![i] =
                    IF pc = "rethrow"
                    THEN Finish(Logged(c, "mlist", out), Rejected("mirror error"))
                    ELSE [Logged(c, "mlist", out) EXCEPT
                            !.pc = pc,
                            !.txns = IF out = "ok" THEN mirror ELSE <<>>,
                            !.matching = m]]
    /\ UNCHANGED <<storeVars, envVars, backendVars, mirrorVars, ops, last,
                   mapperVars>>

\* lines 466-468
DeleteMirrorDelete(i) ==
    /\ calls[i].pc = "d_mdelete"
    /\ LET c == calls[i]
           target == c.txns[c.matching].id
       IN  \E out \in MirrorOutcomes :
            /\ mirror' = IF out = "ok" THEN MirrorWithout(mirror, target) ELSE mirror
            /\ LET pc == TryMirror(out, "d_set", "d_set")
               IN  calls' = [calls EXCEPT ![i] =
                      IF pc = "rethrow"
                      THEN Finish(Logged(c, "mdelete", out), Rejected("mirror error"))
                      ELSE [Logged(c, "mdelete", out) EXCEPT !.pc = pc]]
    /\ UNCHANGED <<storeVars, envVars, backendVars, mirrorNext, ops, last,
                   mapperVars>>

RemoveByIdHead(list, id) == IF list = <<>> THEN list ELSE Tail(list)

\* state.cashflows.filter((cf) => cf.id !== id)
RemoveById(list, id) == SelectSeq(list, LAMBDA cf : cf.id # id)

\* lines 476-479
DeleteSet(i) ==
    /\ calls[i].pc = "d_set"
    /\ cashflows' = RemoveById(cashflows, calls[i].id)
    /\ calls' = [calls EXCEPT ![i] =
                    Finish([Logged(calls[i], "set", "ok") EXCEPT !.before = cashflows],
                           Resolved("void", NoCashflow))]
    /\ UNCHANGED <<isLoading, error, userRole, envVars, backendVars, mirrorVars,
                   ops, last, mapperVars>>

\* ------------------------------------------------------------------------
\* Environment
\* ------------------------------------------------------------------------
\* audit-log.tsx 894-914: an administrator edits a user; the update writes
\* the branch picked in the dialog, or null for "unassigned" and for none.
\* The handler returns at 899-902 without an organisation of its own, and the
\* dialog opens only on the rows of that organisation (741-750): the row
\* edited has an organisation
handleSaveUser ==
    /\ edits < MaxEdits
    /\ \E a \in AccountIds :
        /\ profiles[a].exists
        /\ TruthyStr(profiles[a].org_id)
        /\ \E b \in BranchChoices :
            /\ b # profiles[a].branch_id
            /\ profiles' = [profiles EXCEPT ![a].branch_id = b]
    /\ edits' = edits + 1
    /\ UNCHANGED <<storeVars, session, backendVars, mirrorVars, calls, ops, last,
                   mapperVars>>

\* profile.orgId of an account for which the guard of 899-902 passes
Organisations ==
    {profiles[x].org_id : x \in {y \in AccountIds : TruthyStr(profiles[y].org_id)}}

\* audit-log.tsx 935-945: an administrator creates the user; after the
\* sign-up the update sets up the new account's row as a user of the
\* administrator's organisation
handleSaveUserCreate ==
    /\ edits < MaxEdits
    /\ \E a \in AccountIds :
        /\ profiles[a] = FreshProfile
        /\ \E b \in BranchChoices, o \in Organisations :
            profiles' = [profiles EXCEPT ![a] = ProfileRow("user", b, o)]
    /\ edits' = edits + 1
    /\ UNCHANGED <<storeVars, session, backendVars, mirrorVars, calls, ops, last,
                   mapperVars>>

\* auth.signUp of an account that is new (audit-log.tsx 927-930, part_000
\* 38-41, part_001 19-22): its row holds no role, organisation or branch yet,
\* and when a session comes back the client is signed in as the new account
signUp ==
    /\ edits < MaxEdits
    /\ \E a \in AccountIds :
        /\ a # session
        /\ ~profiles[a].exists
        /\ profiles' = [profiles EXCEPT ![a] = FreshProfile]
        /\ session' \in {a, session}
    /\ edits' = edits + 1
    /\ UNCHANGED <<storeVars, backendVars, mirrorVars, calls, ops, last, mapperVars>>

\* part_001 47-77, part_000 59-66: registerBusiness creates an organisation
\* and makes the account it has signed up the administrator of it
registerBusiness ==
    /\ edits < MaxEdits
    /\ \E a \in AccountIds :
        /\ profiles[a] = FreshProfile
        /\ profiles' = [profiles EXCEPT ![a] = ProfileRow("admin", NullNum, OrgNew)]
    /\ edits' = edits + 1
    /\ UNCHANGED <<storeVars, session, backendVars, mirrorVars, calls, ops, last,
                   mapperVars>>

\* part_000 79-93, part_001 85-100, audit-log.tsx 1073-1076:
\* signInWithPassword succeeds, whoever was signed in before; the client is
\* now signed in as the account of the credentials
loginUser ==
    /\ edits < MaxEdits
    /\ \E a \in AccountIds :
        /\ a # session
        /\ session' = a
    /\ edits' = edits + 1
    /\ UNCHANGED <<storeVars, profiles, backendVars, mirrorVars, calls, ops, last,
                   mapperVars>>

\* what other handlers of the application do to the session and the profile
Environment ==
    \/ handleSaveUser
    \/ handleSaveUserCreate
    \/ signUp
    \/ registerBusiness
    \/ loginUser

StoreStep(i) ==
    \/ FetchStart(i) \/ FetchAuth(i) \/ FetchProfile(i) \/ FetchIncomeQuery(i)
    \/ FetchExpenseQuery(i) \/ FetchSettle(i)
    \/ AddStart(i) \/ AddAuth(i) \/ AddProfile(i) \/ AddInsert(i) \/ AddMirror(i) \/ AddSet(i)
    \/ UpdateStart(i) \/ UpdatePrimary(i) \/ UpdateMirrorList(i)
    \/ UpdateMirrorDelete(i) \/ UpdateAuth(i) \/ UpdateProfile(i)
    \/ UpdateMirrorCreate(i)
    \/ UpdateSet(i)
    \/ DeleteStart(i) \/ DeletePrimary(i) \/ DeleteMirrorList(i)
    \/ DeleteMirrorDelete(i) \/ DeleteSet(i)

\* one call at a time: the session awaits each call before the next
Next ==
    \/ StoreStep(1)
    \/ Environment

Spec == Init /\ [][Next]_vars

\* ------------------------------------------------------------------------
\* Calls in flight at the same time: handlers do not await one another
\* ------------------------------------------------------------------------
FetchStep(i) ==
    \/ FetchStart(i) \/ FetchAuth(i) \/ FetchProfile(i) \/ FetchIncomeQuery(i)
    \/ FetchExpenseQuery(i) \/ FetchSettle(i)

\* rapid repeated fetches
NextRace ==
    \/ \E i \in AllSlots : FetchStep(i)
    \/ Environment

SpecRace == Init /\ [][NextRace]_vars

\* any two calls of the session, their steps interleaved
NextConcurrent ==
    \/ \E i \in AllSlots : StoreStep(i)
    \/ Environment

SpecConcurrent == Init /\ [][NextConcurrent]_vars

\* ------------------------------------------------------------------------
\* Record Mapper on its own: one row, mapped again and again as time passes
\* ------------------------------------------------------------------------
RowDates == {DNull, DEmpty, DGarbage, Pg(1), Ymd(2), Iso(0)}

IncomeRows ==
    [id : {1, 2}, branch_id : {NullNum, 1}, user_id : {UserId}, org_id : {Null, OrgA},
     created_at : RowDates, amount : {NullNum, 0, 5}, income_type : {Null, "Sales"},
     cashflow_id : {NullNum}]

ExpenseRows ==
    [id : {1, 2}, branch_id : {NullNum, 1}, user_id : {UserId}, org_id : {Null, OrgA},
     created_at : RowDates, amount : {NullNum, 5}, expense_category : {Null, "Rent"},
     description : {Null, "note"}, cashflow_id : {NullNum}]

InitMapper ==
    /\ Constructed
    /\ \/ mtable = INCOME_TABLE /\ mrow \in IncomeRows
       \/ mtable = EXPENSE_TABLE /\ mrow \in ExpenseRows
    /\ mout = <<>>

\* mapIncomeRow(row) at the instant now
MapIncome ==
    /\ mtable = INCOME_TABLE
    /\ Len(mout) < MaxMaps
    /\ \E now \in Instants :
        mout' = Append(mout, [now |-> now, out |-> mapIncomeRow(mrow, now)])
    /\ UNCHANGED <<storeVars, envVars, backendVars, mirrorVars, calls, ops, last,
                   mrow, mtable>>

\* mapExpenseRow(row) at the instant now
MapExpense ==
    /\ mtable = EXPENSE_TABLE
    /\ Len(mout) < MaxMaps
    /\ \E now \in Instants :
        mout' = Append(mout, [now |-> now, out |-> mapExpenseRow(mrow, now)])
    /\ UNCHANGED <<storeVars, envVars, backendVars, mirrorVars, calls, ops, last,
                   mrow, mtable>>

NextMapper == MapIncome \/ MapExpense

SpecMapper == InitMapper /\ [][NextMapper]_vars

\* ------------------------------------------------------------------------
\* What a call did, read from its log
\* ------------------------------------------------------------------------
HasEvent(c, ev, outs) ==
    \E k \in 1..Len(c.log) : c.log[k].ev = ev /\ c.log[k].out \in outs

CountEvent(c, ev) == Cardinality({k \in 1..Len(c.log) : c.log[k].ev = ev})

\* the call changed the primary store
PrimaryWrote(c) ==
    \/ HasEvent(c, "insert", {"row", "nodata"})
    \/ HasEvent(c, "update", {"row", "nodata"})
    \/ HasEvent(c, "delete", {"ok"})

\* a ledger-mirror request of the call did not succeed
MirrorFailed(c) ==
    \E ev \in {"mlist", "mdelete", "mcreate"} : HasEvent(c, ev, {"throw", "non2xx"})

IdsOf(list) == {list[k].id : k \in 1..Len(list)}

Elements(list) == {list[k] : k \in 1..Len(list)}

MatchIdx(txns, existing) == {k \in 1..Len(txns) : Matches(txns[k], existing)}

\* ------------------------------------------------------------------------
\* C1 - C10
\* ------------------------------------------------------------------------
\* C1: the list a successful fetchCashflows leaves holds, for an admin, only
\* records of the profile's org and, for anyone else, only records of the
\* profile's branch (an admin whose org_id is null included).
C1_ScopeIsolation ==
    \A i \in AllSlots :
        LET c == calls[i]
        IN  (c.op = "fetch" /\ c.pc = "done" /\ c.result.kind = "void") =>
                \A k \in 1..Len(cashflows) :
                    IF c.prof.role = "admin"
                    THEN cashflows[k].orgId = c.prof.orgId
                    ELSE cashflows[k].branchId = c.prof.branchId

\* C2: a call of fetchCashflows, addCashflow or updateCashflow whose profile
\* resolution meets a non-admin profile without branch fails with the
\* missing-branch error and writes nothing to the primary store.
C2_MissingBranchFails ==
    \A i \in AllSlots :
        LET c == calls[i]
        IN  (c.pc = "done" /\ c.op \in {"fetch", "add", "update"}
                /\ c.prof.err = ErrBranch) =>
                /\ c.result.kind = "throw"
                /\ c.result.err = ErrBranch
                /\ ~PrimaryWrote(c)

\* C3: when the insert of addCashflow echoes a row and the mirror create
\* fails, addCashflow still returns the mapped record, the list holds that
\* record and the inserted row is still in its table.
C3_AddMirrorIsolation ==
    \A i \in AllSlots :
        LET c == calls[i]
        IN  (c.op = "add" /\ c.pc = "done" /\ HasEvent(c, "insert", {"row"})
                /\ HasEvent(c, "mcreate", {"throw", "non2xx"})) =>
                /\ c.result.kind = "record"
                /\ c.result.value = c.normalized
                /\ c.result.value.sourceTable = TableOf(c.payload["category"])
                /\ c.result.value \in Elements(cashflows)
                /\ \E row \in db[c.normalized.sourceTable] :
                        /\ row.id = c.normalized.sourceId
                        /\ row.amount = c.payload["amount"]
                /\ CountEvent(c, "mcreate") = 1

C3_Witness ==
    \E i \in AllSlots :
        /\ calls[i].op = "add" /\ calls[i].pc = "done"
        /\ HasEvent(calls[i], "insert", {"row"})
        /\ HasEvent(calls[i], "mcreate", {"throw"})
        /\ calls[i].result.kind = "record"
        /\ Len(cashflows) = 1

\* C4: once the primary update (delete) has succeeded, a failing mirror call
\* never makes updateCashflow (deleteCashflow) fail, the primary write stays,
\* no mirror call is made twice, and the list has the record replaced
\* (removed).
C4_UpdateDeleteMirrorIsolation ==
    \A i \in AllSlots :
        LET c == calls[i]
            rows == RowsWithId(c.existing.sourceTable, c.existing.sourceId)
        IN  /\ (c.op = "update" /\ c.pc = "done" /\ HasEvent(c, "update", {"row"})
                    /\ MirrorFailed(c)) =>
                    /\ c.result.kind = "record"
                    /\ c.result.value = c.normalized
                    /\ \A row \in rows :
                          \A key \in DOMAIN c.updates \ {"created_at"} :
                              row[key] = c.updates[key]
                    /\ rows # {}
                    /\ Len(cashflows) = Len(c.before)
                    /\ \A k \in 1..Len(cashflows) :
                          cashflows[k] = IF c.before[k].id = c.id THEN c.normalized
                                         ELSE c.before[k]
                    /\ c.normalized \in Elements(cashflows)
            /\ (c.op = "delete" /\ c.pc = "done" /\ HasEvent(c, "delete", {"ok"})
                    /\ MirrorFailed(c)) =>
                    /\ c.result.kind = "void"
                    /\ rows = {}
                    /\ c.id \notin IdsOf(cashflows)
            /\ (c.op \in {"update", "delete"}) =>
                    \A ev \in {"mlist", "mdelete", "mcreate"} : CountEvent(c, ev) <= 1

C4_Witness ==
    /\ \E i \in AllSlots :
        /\ calls[i].op = "update" /\ calls[i].pc = "done"
        /\ HasEvent(calls[i], "update", {"row"})
        /\ HasEvent(calls[i], "mdelete", {"ok"})
        /\ HasEvent(calls[i], "mcreate", {"throw"})
        /\ calls[i].normalized # calls[i].existing
        /\ calls[i].normalized \in Elements(cashflows)
    /\ last.op = "add"

\* C5: deleteCashflow(id) for an id that is not in the list fails with the
\* not-found error at once, issues no primary-store call and no mirror call,
\* and leaves the list unchanged.
C5_DeleteNotFound ==
    [][\A i \in AllSlots :
        (/\ calls'[i] # calls[i]
         /\ calls'[i].op = "delete"
         /\ ops' = ops + 1
         /\ calls'[i].id \notin IdsOf(cashflows))
        => /\ calls'[i].pc = "done"
           /\ calls'[i].result = Rejected(ErrNotFound)
           /\ calls'[i].log = <<>>
           /\ UNCHANGED <<cashflows, db, nextId, mirror, mirrorNext>>]_vars

C5_Witness ==
    \E i \in AllSlots :
        /\ calls[i].op = "delete" /\ calls[i].pc = "done"
        /\ calls[i].result = Rejected(ErrNotFound)
        /\ calls[i].id = StaleId
        /\ Len(cashflows) > 0

\* C6: the update payload sent for an income record has no description key;
\* the one sent for an expense record has it exactly when the input has it.
C6_DescriptionKey ==
    \A i \in AllSlots :
        LET c == calls[i]
        IN  (c.op = "update" /\ c.existing # NoCashflow) =>
                /\ c.existing.sourceTable = INCOME_TABLE =>
                        ~Has(c.updates, "description")
                /\ c.existing.sourceTable = EXPENSE_TABLE =>
                        (Has(c.updates, "description") <=> Has(c.payload, "description"))

C6_Witness ==
    \E i \in AllSlots :
        /\ calls[i].op = "update"
        /\ calls[i].existing.sourceTable = INCOME_TABLE
        /\ Has(calls[i].payload, "description")
        /\ HasEvent(calls[i], "update", {"row"})

\* C7: after a successful fetchCashflows the list holds exactly the mapped
\* rows of the two query results, each once, newest first.
C7_FetchMergesAndSorts ==
    \A i \in AllSlots :
        LET c == calls[i]
        IN  (c.op = "fetch" /\ c.pc = "done" /\ c.result.kind = "void") =>
                /\ Len(cashflows) = Len(c.incomeRes.data) + Len(c.expenseRes.data)
                /\ Cardinality(IdsOf(cashflows)) = Len(cashflows)
                /\ \E nows \in Clocks(Len(c.incomeRes.data) + Len(c.expenseRes.data)) :
                      Elements(cashflows) =
                          {mapIncomeRow(c.incomeRes.data[k], nows[k])
                                : k \in 1..Len(c.incomeRes.data)}
                          \cup {mapExpenseRow(c.expenseRes.data[k],
                                              nows[Len(c.incomeRes.data) + k])
                                : k \in 1..Len(c.expenseRes.data)}
                /\ \A k \in 1..(Len(cashflows) - 1) :
                      GetTime(cashflows[k].date) >= GetTime(cashflows[k + 1].date)

C7_Witness ==
    \E i \in AllSlots :
        /\ calls[i].op = "fetch" /\ calls[i].pc = "done"
        /\ calls[i].result.kind = "void"
        /\ calls[i].prof.role = "user"
        /\ Len(cashflows) = 2
        /\ cashflows[1].sourceTable = EXPENSE_TABLE
        /\ cashflows[2].sourceTable = INCOME_TABLE
        /\ GetTime(cashflows[1].date) > GetTime(cashflows[2].date)

\* C8: a successful fetchCashflows that follows a successful addCashflow of
\* the same profile leaves a list that holds the record addCashflow returned,
\* equal in every field.
C8_RoundTrip ==
    \A i \in AllSlots :
        LET c == calls[i]
        IN  (c.op = "fetch" /\ c.pc = "done" /\ c.result.kind = "void"
                /\ last.op = "add" /\ last.result.kind = "record"
                /\ last.prof = c.prof) =>
                last.result.value \in Elements(cashflows)

C8_Witness ==
    \E i \in AllSlots :
        /\ calls[i].op = "fetch" /\ calls[i].pc = "done"
        /\ calls[i].result.kind = "void"
        /\ last.op = "add" /\ last.result.kind = "record"
        /\ last.prof = calls[i].prof
        /\ last.result.value.sourceTable = EXPENSE_TABLE
        /\ last.result.value.description = "note"
        /\ last.result.value \in Elements(cashflows)

\* C9: when the mirror list an updateCashflow receives holds two or more
\* entries that match the pre-update record, the call asks for the deletion
\* of one entry only, the first match of the list, loses no other entry, and
\* ends without error.
C9_MatchAmbiguity ==
    \A i \in AllSlots :
        LET c == calls[i]
            idx == MatchIdx(c.txns, c.existing)
            gone == {c.txns[k].id : k \in 1..Len(c.txns)}
                        \ {mirror[k].id : k \in 1..Len(mirror)}
        IN  (c.op = "update" /\ HasEvent(c, "mlist", {"ok"})
                /\ Cardinality(idx) >= 2) =>
                /\ c.matching \in idx
                /\ \A j \in idx : c.matching <= j
                /\ CountEvent(c, "mdelete") <= 1
                /\ gone = IF HasEvent(c, "mdelete", {"ok"})
                          THEN {c.txns[c.matching].id} ELSE {}
                /\ c.pc = "done" => c.result.kind = "record"

C9_Witness ==
    \E i \in AllSlots :
        LET c == calls[i]
        IN  /\ c.op = "update" /\ c.pc = "done"
            /\ Cardinality(MatchIdx(c.txns, c.existing)) >= 2
            /\ HasEvent(c, "mdelete", {"ok"})
            /\ c.result.kind = "record"
            /\ Len(mirror) >= Len(c.txns) - 1

\* C10 as stated: mapping the same row twice gives identical output, also
\* for a row whose created_at is null or unparseable.
C10_MapperDeterministic ==
    \A j, k \in 1..Len(mout) : mout[j].out = mout[k].out

ExceptDate(cf) == [cf EXCEPT !.date = DNull]

Parseable(value) == ~Falsy(value) /\ ~IsNaNDate(value)

\* C10 amended: mapping the same row twice gives identical output when
\* created_at is a parseable timestamp; when it is null, empty or unparseable
\* the outputs agree in every field but date, which is the instant of the call.
C10_MapperDeterministicWhenParseable ==
    \A j, k \in 1..Len(mout) :
        /\ ExceptDate(mout[j].out) = ExceptDate(mout[k].out)
        /\ Parseable(mrow.created_at) => mout[j].out = mout[k].out
        /\ ~Parseable(mrow.created_at) => mout[j].out.date = Iso(mout[j].now)

C10_Witness ==
    /\ Len(mout) = 2
    /\ mout[1].now # mout[2].now
    /\ mrow.created_at = Pg(1)
    /\ mtable = INCOME_TABLE
    /\ mout[1].out = mout[2].out

\* ------------------------------------------------------------------------
\* C11 - C20
\* ------------------------------------------------------------------------
QueryFailed(res) == res.state \in {"error", "errorObject"}

\* C11: a fetchCashflows whose profile resolution, income query or expense
\* query fails ends with an empty list (the rows of a query that succeeded
\* are not kept), with the failure message in the error field, with
\* isLoading false, and with the error raised to the caller.
C11_FetchAllOrNothing ==
    \A i \in AllSlots :
        LET c == calls[i]
            thrown == IF HasEvent(c, "profile", {"throw"}) THEN "profile"
                      ELSE IF QueryFailed(c.incomeRes) THEN c.incomeRes.state
                      ELSE IF QueryFailed(c.expenseRes) THEN c.expenseRes.state
                      ELSE "none"
        IN  (c.op = "fetch" /\ c.pc = "done" /\ thrown # "none") =>
                /\ cashflows = <<>>
                /\ isLoading = FALSE
                /\ c.result.kind = "throw"
                /\ c.result.err = (IF thrown = "profile" THEN c.prof.err ELSE ErrDb)
                /\ error = c.result.err

\* the primary store rejected a request of the call
PrimaryFailed(c) ==
    \/ HasEvent(c, "income_query", {"error", "errorObject"})
    \/ HasEvent(c, "expense_query", {"error", "errorObject"})
    \/ HasEvent(c, "insert", {"error"})
    \/ HasEvent(c, "update", {"error"})
    \/ HasEvent(c, "delete", {"error"})

\* C12: a call of fetch, add, update or delete that the primary store
\* rejects is raised to the caller, makes no mirror call, does not put the
\* new, updated or removed record into the list, and leaves the failure in
\* the error field of the store.
C12_PrimaryFailureAborts ==
    \A i \in AllSlots :
        LET c == calls[i]
        IN  (c.pc = "done" /\ PrimaryFailed(c)) =>
                /\ c.result.kind = "throw"
                /\ \A ev \in {"mlist", "mdelete", "mcreate"} : CountEvent(c, ev) = 0
                /\ c.op # "fetch" => CountEvent(c, "set") = 0
                /\ error \in {ErrDb, ErrUnknown}

\* C13: a mirror request answered with a non-2xx status reaches the store
\* as a failure, as a request that throws does: the reconciliation of the
\* call stops there and nothing more of it is attempted.
C13_Non2xxIsFailure ==
    \A i \in AllSlots :
        LET c == calls[i]
        IN  \A k \in 1..Len(c.log) :
                (c.log[k].ev \in {"mlist", "mdelete", "mcreate"}
                    /\ c.log[k].out \in {"throw", "non2xx"}) =>
                    \A j \in (k + 1)..Len(c.log) :
                        c.log[j].ev \notin {"mlist", "mdelete", "mcreate", "profile"}

MirrorEvents == {"mlist", "mdelete", "mcreate"}

\* the primary store carried out the write of the call
PrimaryDone(e) ==
    \/ e.ev = "insert" /\ e.out = "row"
    \/ e.ev = "update" /\ e.out = "row"
    \/ e.ev = "delete" /\ e.out = "ok"

\* C14: in addCashflow, updateCashflow and deleteCashflow every mirror call
\* comes after the successful primary write of the call, and the list is
\* updated after the mirror attempt is over.
C14_DualWriteOrder ==
    \A i \in AllSlots :
        LET c == calls[i]
        IN  c.op \in {"add", "update", "delete"} =>
                /\ \A k \in 1..Len(c.log) :
                      c.log[k].ev \in MirrorEvents =>
                          \E j \in 1..(k - 1) : PrimaryDone(c.log[j])
                /\ \A k \in 1..Len(c.log) :
                      c.log[k].ev = "set" =>
                          /\ k = Len(c.log)
                          /\ \E j \in 1..(k - 1) : c.log[j].ev \in MirrorEvents
                /\ \A k \in 1..Len(c.log) :
                      c.log[k].ev \in {"insert", "update", "delete"} =>
                          \A j \in 1..(k - 1) : c.log[j].ev \notin MirrorEvents \cup {"set"}

C14_Witness ==
    \E i \in AllSlots :
        LET c == calls[i]
        IN  /\ c.op = "update" /\ c.pc = "done"
            /\ Len(c.log) = 6
            /\ c.log[1] = Event("update", "row")
            /\ c.log[2] = Event("mlist", "ok")
            /\ c.log[3] = Event("mdelete", "ok")
            /\ c.log[5] = Event("mcreate", "ok")
            /\ c.log[6] = Event("set", "ok")

\* every record the store holds or has in hand
KnownRecords ==
    Elements(cashflows)
    \cup {calls[i].normalized : i \in {j \in AllSlots : calls[j].normalized # NoCashflow}}
    \cup {calls[i].existing : i \in {j \in AllSlots : calls[j].existing # NoCashflow}}

\* C15: a mapped income row and a mapped expense row never have the same
\* unified id, also when the rows have the same numeric id; two mapped
\* records have the same unified id only when they come from the same table
\* and the same source id.
C15_UnifiedIdsCollisionFree ==
    \A a, b \in KnownRecords :
        /\ (a.sourceTable # b.sourceTable) => a.id # b.id
        /\ (a.id = b.id) => (a.sourceTable = b.sourceTable /\ a.sourceId = b.sourceId)

C15_Witness ==
    \E a, b \in Elements(cashflows) :
        /\ a.sourceTable = INCOME_TABLE
        /\ b.sourceTable = EXPENSE_TABLE
        /\ a.sourceId = b.sourceId
        /\ a.id # b.id

\* the position of the event ev in the log of c, 0 when there is none
EventIdx(c, ev) ==
    LET idx == {k \in 1..Len(c.log) : c.log[k].ev = ev}
    IN  IF idx = {} THEN 0 ELSE CHOOSE k \in idx : \A j \in idx : k <= j

\* the update of c went through, a mirror entry matched the record as it
\* was, and the list, delete and create requests all succeeded
ReconciledUpdate(c) ==
    /\ c.op = "update"
    /\ HasEvent(c, "update", {"row"})
    /\ HasEvent(c, "mlist", {"ok"})
    /\ MatchIdx(c.txns, c.existing) # {}
    /\ HasEvent(c, "mdelete", {"ok"})
    /\ HasEvent(c, "mcreate", {"ok"})

\* C16: such an update deletes the one mirror entry that matches the
\* pre-update record and then creates one entry with the amount, name and
\* category of the post-update record.
C16_UpdateReconciliation ==
    \A i \in AllSlots :
        LET c == calls[i]
            old == c.txns[c.matching]
            new == mirror[Len(mirror)]
        IN  ReconciledUpdate(c) =>
                /\ c.matching \in MatchIdx(c.txns, c.existing)
                /\ old.amount = c.existing.amount
                /\ old.category = c.existing.name
                /\ old.type = c.existing.category
                /\ Len(mirror) = Len(c.txns)
                /\ SubSeq(mirror, 1, Len(mirror) - 1) = MirrorWithout(c.txns, old.id)
                /\ new.id \notin {c.txns[k].id : k \in 1..Len(c.txns)}
                /\ new.amount = c.normalized.amount
                /\ new.category = c.normalized.name
                /\ new.type = c.normalized.category
                /\ CountEvent(c, "mdelete") = 1
                /\ CountEvent(c, "mcreate") = 1
                /\ EventIdx(c, "mdelete") < EventIdx(c, "mcreate")

C16_Witness ==
    \E i \in AllSlots :
        LET c == calls[i]
        IN  /\ ReconciledUpdate(c)
            /\ c.pc = "done"
            /\ c.normalized.amount # c.existing.amount
            /\ Len(c.txns) = 3
            /\ mirror[Len(mirror)].amount = c.normalized.amount

\* the update of c went through and no listed mirror entry matches the
\* record as it was
UnmatchedUpdate(c) ==
    /\ c.op = "update"
    /\ HasEvent(c, "update", {"row"})
    /\ HasEvent(c, "mlist", {"ok"})
    /\ MatchIdx(c.txns, c.existing) = {}

\* C17 as stated: such an update neither deletes nor creates a mirror entry,
\* the mirror is as it was listed.
C17_NoMatchSkipsReconciliation ==
    \A i \in AllSlots :
        LET c == calls[i]
        IN  UnmatchedUpdate(c) =>
                /\ CountEvent(c, "mdelete") = 0
                /\ CountEvent(c, "mcreate") = 0
                /\ mirror = c.txns

\* C17 amended: such an update deletes no mirror entry; it still resolves
\* the profile and requests the creation of the entry for the post-update
\* record, so the mirror is as it was listed, with that one entry added
\* when the creation succeeds.
C17_NoMatchSkipsDelete ==
    \A i \in AllSlots :
        LET c == calls[i]
            new == mirror[Len(mirror)]
        IN  UnmatchedUpdate(c) =>
                /\ CountEvent(c, "mdelete") = 0
                /\ CountEvent(c, "mcreate") <= 1
                /\ (c.pc = "done" /\ HasEvent(c, "profile", {"ok"})) =>
                        CountEvent(c, "mcreate") = 1
                /\ IF HasEvent(c, "mcreate", {"ok"})
                   THEN /\ Len(mirror) = Len(c.txns) + 1
                        /\ SubSeq(mirror, 1, Len(c.txns)) = c.txns
                        /\ new.amount = c.normalized.amount
                        /\ new.category = c.normalized.name
                        /\ new.type = c.normalized.category
                   ELSE mirror = c.txns

C17_Witness ==
    \E i \in AllSlots :
        LET c == calls[i]
        IN  /\ UnmatchedUpdate(c)
            /\ c.pc = "done"
            /\ Len(c.txns) > 0
            /\ HasEvent(c, "mcreate", {"ok"})
            /\ Len(mirror) = Len(c.txns) + 1

\* C18: a deleteCashflow whose primary delete succeeded changes the mirror
\* by at most one step, the removal of the first listed entry that matches
\* the deleted record; without such an entry, or without a successful list
\* or delete request, the mirror stays as it is; the call never creates a
\* mirror entry.
C18_DeleteReconciliation ==
    [][\A i \in AllSlots :
        LET c == calls[i]
            d == calls'[i]
            idx == MatchIdx(d.txns, d.existing)
            first == CHOOSE k \in idx : \A j \in idx : k <= j
        IN  (c.op = "delete" /\ d.op = "delete" /\ c.pc # "done") =>
                /\ mirrorNext' = mirrorNext
                /\ CountEvent(d, "mcreate") = 0
                /\ CountEvent(d, "mdelete") <= 1
                /\ mirror' # mirror =>
                      /\ HasEvent(c, "delete", {"ok"})
                      /\ HasEvent(c, "mlist", {"ok"})
                      /\ CountEvent(c, "mdelete") = 0
                      /\ HasEvent(d, "mdelete", {"ok"})
                      /\ idx # {}
                      /\ mirror = d.txns
                      /\ mirror' = MirrorWithout(mirror, d.txns[first].id)
                      /\ Len(mirror') = Len(mirror) - 1
                /\ (d.pc = "done" /\ HasEvent(d, "mlist", {"ok"})) =>
                      mirror' = IF idx # {} /\ HasEvent(d, "mdelete", {"ok"})
                                THEN MirrorWithout(d.txns, d.txns[first].id)
                                ELSE d.txns]_vars

C18_Witness ==
    \E i \in AllSlots :
        LET c == calls[i]
            idx == MatchIdx(c.txns, c.existing)
        IN  /\ c.op = "delete" /\ c.pc = "done"
            /\ HasEvent(c, "mdelete", {"ok"})
            /\ Cardinality(idx) >= 2
            /\ Len(mirror) = Len(c.txns) - 1
            /\ \E k \in idx : c.txns[k] \in Elements(mirror)

\* C19: when addCashflow returns a record, the step that updates the list
\* puts that record in front of the list as it is at that moment, every
\* previous record kept in its order, and the call issues no fetch query.
C19_AddPrepends ==
    [][\A i \in AllSlots :
        LET c == calls[i]
            d == calls'[i]
        IN  (d.op = "add" /\ d.pc = "done" /\ c.pc # "done"
                /\ d.result.kind = "record") =>
                /\ Len(cashflows') = Len(cashflows) + 1
                /\ cashflows'[1] = d.result.value
                /\ \A k \in 1..Len(cashflows) : cashflows'[k + 1] = cashflows[k]
                /\ CountEvent(d, "income_query") = 0
                /\ CountEvent(d, "expense_query") = 0
                /\ CountEvent(d, "set") = 1]_vars

C19_Witness ==
    \E i \in AllSlots :
        LET c == calls[i]
        IN  /\ c.op = "add" /\ c.pc = "done"
            /\ c.result.kind = "record"
            /\ Len(c.before) = 1
            /\ Len(cashflows) = 2
            /\ cashflows[1] = c.result.value
            /\ cashflows[2] = c.before[1]
            /\ cashflows[1] # cashflows[2]

\* C20: when updateCashflow(id, ...) returns a record, the step that updates
\* the list keeps its length and order, replaces the element with that id by
\* the mapped updated row, and leaves every other element as it is.
C20_UpdateReplaces ==
    [][\A i \in AllSlots :
        LET c == calls[i]
            d == calls'[i]
            table == d.existing.sourceTable
        IN  (d.op = "update" /\ d.pc = "done" /\ c.pc # "done"
                /\ d.result.kind = "record") =>
                /\ Len(cashflows') = Len(cashflows)
                /\ \A k \in 1..Len(cashflows) :
                      cashflows'[k] = IF cashflows[k].id = d.id THEN d.result.value
                                      ELSE cashflows[k]
                /\ d.result.value.id = d.id
                /\ \E row \in RowsWithId(table, d.existing.sourceId), now \in Instants :
                      d.result.value = MapRow(table, row, now)
                /\ CountEvent(d, "set") = 1]_vars

C20_Witness ==
    \E i \in AllSlots :
        LET c == calls[i]
        IN  /\ c.op = "update" /\ c.pc = "done"
            /\ c.result.kind = "record"
            /\ Len(cashflows) = 2
            /\ cashflows[2] = c.result.value
            /\ cashflows[2] # c.before[2]
            /\ cashflows[1] = c.before[1]
            /\ cashflows[1].id # c.id

\* ------------------------------------------------------------------------
\* C21 - C30
\* ------------------------------------------------------------------------
\* how many of the first k elements of list have the id
CountId(list, id, k) == Cardinality({j \in 1..k : list[j].id = id})

\* C21: after a successful deleteCashflow(id) the list holds no record with
\* that id, and the records with another id are all there, unchanged and in
\* the order they had.
C21_DeleteRemoves ==
    \A i \in AllSlots :
        LET c == calls[i]
        IN  (c.op = "delete" /\ c.pc = "done" /\ c.result.kind = "void") =>
                /\ c.id \notin IdsOf(cashflows)
                /\ Len(cashflows) = Len(c.before) - CountId(c.before, c.id, Len(c.before))
                /\ \A k \in 1..Len(c.before) :
                      c.before[k].id # c.id =>
                          cashflows[k - CountId(c.before, c.id, k)] = c.before[k]

C21_Witness ==
    \E i \in AllSlots :
        LET c == calls[i]
        IN  /\ c.op = "delete" /\ c.pc = "done" /\ c.result.kind = "void"
            /\ Len(c.before) = 2
            /\ c.before[2].id = c.id
            /\ cashflows = <<c.before[1]>>

\* C22: updateCashflow(id, ...) for an id that is not in the list fails with
\* the not-found error at once, also when the primary store has the row: no
\* fetch, no primary-store call, no mirror call, the list unchanged.
C22_UpdateNotFound ==
    [][\A i \in AllSlots :
        (/\ calls'[i] # calls[i]
         /\ calls'[i].op = "update"
         /\ ops' = ops + 1
         /\ calls'[i].id \notin IdsOf(cashflows))
        => /\ calls'[i].pc = "done"
           /\ calls'[i].result = Rejected(ErrNotFound)
           /\ calls'[i].log = <<>>
           /\ UNCHANGED <<cashflows, isLoading, db, nextId, mirror, mirrorNext>>]_vars

C22_Witness ==
    \E i \in AllSlots :
        /\ calls[i].op = "update" /\ calls[i].pc = "done"
        /\ calls[i].result = Rejected(ErrNotFound)
        /\ calls[i].id = SeedId
        /\ RowsWithId(INCOME_TABLE, 1) # {}
        /\ Len(cashflows) > 0

\* what made the fetch c fail, "none" when nothing did
FetchThrown(c) ==
    IF HasEvent(c, "profile", {"throw"}) THEN "profile"
    ELSE IF QueryFailed(c.incomeRes) THEN c.incomeRes.state
    ELSE IF QueryFailed(c.expenseRes) THEN c.expenseRes.state
    ELSE "none"

\* the mapped rows the two queries of the fetch c returned
OwnRecords(c) ==
    {mapIncomeRow(c.incomeRes.data[k], 0) : k \in 1..Len(c.incomeRes.data)}
    \cup {mapExpenseRow(c.expenseRes.data[k], 0) : k \in 1..Len(c.expenseRes.data)}

InFlight(c) == c.pc \notin {"idle", "done"}

\* C23: with two fetchCashflows calls in flight neither is cancelled or held
\* back, and each, when its response resolves, writes its own result over
\* the list and the error field: what is there after both is the result of
\* the call that resolved last, whichever was issued first.
C23_LastResponseWins ==
    [][\A i \in AllSlots :
        LET c == calls[i]
            d == calls'[i]
        IN  (d.op = "fetch" /\ d.pc = "done" /\ InFlight(c)) =>
                /\ \A j \in AllSlots \ {i} : calls'[j] = calls[j]
                /\ IF FetchThrown(d) = "none"
                   THEN /\ Elements(cashflows') = OwnRecords(d)
                        /\ Len(cashflows') = Cardinality(OwnRecords(d))
                        /\ error' = Null
                   ELSE /\ cashflows' = <<>>
                        /\ error' = (IF FetchThrown(d) = "profile" THEN d.prof.err
                                     ELSE IF FetchThrown(d) = "error" THEN ErrDb
                                     ELSE ErrUnknown)]_vars

\* the call issued first resolved last and its rows are in the list, though
\* the call issued after it had failed
C23_Witness ==
    \E i, j \in AllSlots :
        /\ calls[i].op = "fetch" /\ calls[i].pc = "done"
        /\ calls[j].op = "fetch" /\ calls[j].pc = "done"
        /\ calls[i].seq < calls[j].seq
        /\ FetchThrown(calls[i]) = "none"
        /\ FetchThrown(calls[j]) = "error"
        /\ OwnRecords(calls[i]) # {}
        /\ Elements(cashflows) = OwnRecords(calls[i])
        /\ error = Null

\* C24: ensureProfile fails with the not-logged-in error when there is no
\* identity, with the profile-not-found error when the identity has no
\* profile row, and looks at the branch only after both; a call whose
\* profile resolution fails has no profile and writes nothing to the
\* primary store.
C24_ResolverFailures ==
    [][\A i \in AllSlots :
        LET c == calls'[i]
        IN  (HasEvent(c, "profile", {"throw"}) /\ ~HasEvent(calls[i], "profile", {"throw"})) =>
                /\ ~c.prof.ok
                /\ c.prof.err \in {ErrAuth, ErrLogin, ErrDb, ErrProfile, ErrBranch}
                /\ c.prof.err = ErrLogin => session = "nouser"
                /\ c.prof.err = ErrProfile => ~ProfileOf(calls[i].prof.userId).exists
                /\ c.prof.err = ErrBranch =>
                        LET row == ProfileOf(calls[i].prof.userId)
                        IN  row.exists /\ row.role # "admin" /\ NoBranch(row.branch_id)
                /\ c.prof.branchId = NullNum /\ c.prof.orgId = Null
                /\ ~PrimaryWrote(c)]_vars

OwnershipColumns == {"branch_id", "org_id", "user_id"}

\* C25: the payload updateCashflow sends never has branch_id, org_id or
\* user_id, so the updated row and the record mapped from it keep the branch
\* and the org the record had.
C25_OwnershipFixed ==
    \A i \in AllSlots :
        LET c == calls[i]
        IN  (c.op = "update" /\ c.existing # NoCashflow) =>
                /\ DOMAIN c.updates \cap OwnershipColumns = {}
                /\ \A row \in RowsWithId(c.existing.sourceTable, c.existing.sourceId) :
                      /\ row.branch_id = c.existing.branchId
                      /\ row.org_id = c.existing.orgId
                /\ c.normalized # NoCashflow =>
                      /\ c.normalized.branchId = c.existing.branchId
                      /\ c.normalized.orgId = c.existing.orgId

C25_Witness ==
    \E i \in AllSlots :
        LET c == calls[i]
        IN  /\ c.op = "update" /\ c.pc = "done" /\ c.result.kind = "record"
            /\ c.existing.branchId = 1 /\ c.existing.orgId = OrgA
            /\ c.result.value # c.existing
            /\ c.result.value.branchId = 1 /\ c.result.value.orgId = OrgA
            /\ \E row \in RowsWithId(c.existing.sourceTable, c.existing.sourceId) :
                  row.branch_id = 1 /\ row.org_id = OrgA /\ row.amount = c.result.value.amount

\* C26: whatever the interleaving of the calls of a session, no two elements
\* of the list have the same unified id.
C26_NoDuplicateIds ==
    \A j, k \in 1..Len(cashflows) : cashflows[j].id = cashflows[k].id => j = k

FetchInFlight == \E i \in AllSlots : calls[i].op = "fetch" /\ InFlight(calls[i])

\* C30: isLoading is true whenever a fetchCashflows call has started and not
\* finished, also when another fetch has finished meanwhile, and false once
\* every started fetch has finished.
C30_LoadingTracksFetches ==
    /\ FetchInFlight => isLoading
    /\ (~FetchInFlight /\ \E i \in AllSlots : calls[i].op = "fetch") => ~isLoading

\* C27: the mirror entry an updateCashflow or deleteCashflow deletes carries
\* the tenant key of the record being updated or deleted, never that of
\* another org or branch.
C27_MirrorTenantIsolation ==
    \A i \in AllSlots :
        LET c == calls[i]
        IN  (c.op \in {"update", "delete"} /\ HasEvent(c, "mdelete", {"ok"})) =>
                c.txns[c.matching].smeId = SmeId(c.existing.orgId, c.existing.branchId)

\* C28: an updateCashflow that has ended and whose mirror delete succeeded
\* has also created the new mirror entry; a delete without the create never
\* stays behind.
C28_ReconciliationAtomic ==
    \A i \in AllSlots :
        LET c == calls[i]
        IN  (c.op = "update" /\ c.pc = "done" /\ HasEvent(c, "mdelete", {"ok"})) =>
                HasEvent(c, "mcreate", {"ok"})

\* ------------------------------------------------------------------------
\* One session on an empty store and an empty mirror, with every remote call
\* answering without an error
\* ------------------------------------------------------------------------
\* no call of c was rejected or threw, and each insert came back with its row
Succeeded(c) ==
    \A k \in 1..Len(c.log) :
        \/ c.log[k].out \in {"ok", "row"}
        \/ c.log[k] = Event("update", "nodata")

InitSync ==
    /\ Init
    /\ db = (INCOME_TABLE :> {}) @@ (EXPENSE_TABLE :> {})
    /\ mirror = <<>>

NextSync ==
    \/ AddStart(1) /\ Succeeded(calls'[1])
    \/ AddAuth(1) /\ Succeeded(calls'[1])
    \/ AddProfile(1) /\ Succeeded(calls'[1])
    \/ AddInsert(1) /\ Succeeded(calls'[1])
    \/ AddMirror(1) /\ Succeeded(calls'[1])
    \/ AddSet(1) /\ Succeeded(calls'[1])
    \/ UpdateStart(1) /\ Succeeded(calls'[1])
    \/ UpdatePrimary(1) /\ Succeeded(calls'[1])
    \/ UpdateMirrorList(1) /\ Succeeded(calls'[1])
    \/ UpdateMirrorDelete(1) /\ Succeeded(calls'[1])
    \/ UpdateAuth(1) /\ Succeeded(calls'[1])
    \/ UpdateProfile(1) /\ Succeeded(calls'[1])
    \/ UpdateMirrorCreate(1) /\ Succeeded(calls'[1])
    \/ UpdateSet(1) /\ Succeeded(calls'[1])
    \/ DeleteStart(1) /\ Succeeded(calls'[1])
    \/ DeletePrimary(1) /\ Succeeded(calls'[1])
    \/ DeleteMirrorList(1) /\ Succeeded(calls'[1])
    \/ DeleteMirrorDelete(1) /\ Succeeded(calls'[1])
    \/ DeleteSet(1) /\ Succeeded(calls'[1])
    \/ Environment

SpecSync == InitSync /\ [][NextSync]_vars

\* the {amount, name, category} triples of the primary-store records and the
\* {amount, category, type} triples of the mirror entries
Triple(amount, name, category) ==
    [amount |-> amount, name |-> name, category |-> category]

PrimaryTriples(table) ==
    {[id |-> row.id, table |-> table,
      triple |-> LET r == MapRow(table, row, 0)
                 IN  Triple(r.amount, r.name, r.category)] : row \in db[table]}

RecordTriples == PrimaryTriples(INCOME_TABLE) \cup PrimaryTriples(EXPENSE_TABLE)

MirrorTriple(k) == Triple(mirror[k].amount, mirror[k].category, mirror[k].type)

SameTriples ==
    \A t \in {r.triple : r \in RecordTriples} \cup {MirrorTriple(k) : k \in 1..Len(mirror)} :
        Cardinality({r \in RecordTriples : r.triple = t})
            = Cardinality({k \in 1..Len(mirror) : MirrorTriple(k) = t})

BetweenCalls == calls[1].pc \in {"idle", "done"}

\* C29 as stated: on an empty store and mirror, after each call of a series
\* of add, update and delete calls whose remote calls all succeed and whose
\* inserts echo their rows, the mirror entries carry the triples of the
\* primary-store records, each as many times.
C29_MirrorInSync == BetweenCalls => SameTriples

\* C29 amended: the same when, in addition, every update so far echoed its
\* row; an update that gets no row back has written the primary store and
\* returns before the mirror is touched.
C29_MirrorInSyncEchoed == (BetweenCalls /\ ~Unechoed(calls[1])) => SameTriples

C29_Witness ==
    LET c == calls[1]
    IN  /\ ops = 2
        /\ ReconciledUpdate(c)
        /\ c.pc = "done"
        /\ ~Unechoed(c)
        /\ Len(mirror) = 1
        /\ MirrorTriple(1) = Triple(c.normalized.amount, c.normalized.name,
                                    c.normalized.category)
        /\ MirrorTriple(1) # Triple(c.existing.amount, c.existing.name,
                                    c.existing.category)

====
